---- MODULE Spec2Model ----
(***************************************************************************)
(* State-machine model of the PIO ATA driver in src/src/disk/ata/ata.c.   *)
(*                                                                         *)
(* The driver's state is the module-level device list and object pool,    *)
(* the one device record (spinlock, wait_irq), and, per execution context, *)
(* the position inside the facade call it is executing.  The hardware is   *)
(* a controller on the primary port range: a status register the device   *)
(* changes on its own, the task-file registers the driver writes, and a    *)
(* sector store reached through the data register.                         *)
(***************************************************************************)
EXTENDS Integers, Sequences, FiniteSets, TLC

\* ------------------------------------------------------------ ata.h
ATA_PRIMARY_BUS == 496
ATA_PRIMARY_CTRL == 1014

ATA_REG_DATA == 0
ATA_REG_SECTOR_COUNT == 2
ATA_REG_SECTOR_NUMBER == 3
ATA_REG_CYLINDER_LOW == 4
ATA_REG_CYLINDER_HIGH == 5
ATA_REG_DRIVE == 6
ATA_REG_STATUS == 7
ATA_REG_COMMAND == 7
ATA_CTRL_DEVICE_CONTROL == 0

ATA_STATUS_ERR == 1
ATA_STATUS_DRQ == 8
ATA_STATUS_RDY == 64
ATA_STATUS_BSY == 128

ATA_CMD_IDENTIFY == 236
ATA_CMD_READ_SECTORS == 32
ATA_CMD_WRITE_SECTORS == 48
ATA_CMD_CACHE_FLUSH == 231

ATA_TYPE_UNKNOWN == 0
ATA_TYPE_PATA == 1
ATA_TYPE_PATAPI == 2
ATA_TYPE_SATA == 3
ATA_TYPE_SATAPI == 4

\* the inner transfer loops run j = 0 .. 255; the validation admits 0 .. 0xff
WordsPerSector == 256
MaxSectors == 255
\* the null pointer, and the status a floating bus reads as
NULL == 0
FloatingStatus == 255

\* ------------------------------------------------------------ bounds
\* number of concurrent client contexts
NCtx == 2
\* largest valid sector count a client passes
MaxN == 2

\* ------------------------------------------------------------ bits
\* bit b (a power of two) of byte v
HasBit(v, b) == (v \div b) % 2 = 1
SetBit(v, b) == IF HasBit(v, b) THEN v ELSE v + b
ClearBit(v, b) == IF HasBit(v, b) THEN v - b ELSE v
\* (uint8_t) x
U8(x) == x % 256
\* x >> n
Shr(x, n) == x \div (2 ^ n)

Min(a, b) == IF a < b THEN a ELSE b

VARIABLES
  ipc,            \* position of the boot context inside ata_init
  devices_cache,  \* "NULL" or "cache"
  devices,        \* head of the device list: NULL or a record id
  idev,           \* ata_init_device's local dev
  pool,           \* [live, allocs, frees] of the object pool
  dev,            \* the device record: [next, bus, ctrl, spinlock, wait_irq]
  status,         \* the controller's status register
  hw,             \* task file and transfer cursor of the controller
  disk,           \* sector store: <<unit, lba, index>> -> word, zero where absent
  pc,             \* per client context: position
  fr,             \* per client context: arguments and locals of the call
  mem,            \* per client context: the receive buffer, zero where absent
  log,            \* per thread (0 = boot): port accesses of the current call
  done,           \* per client context: last successful write (ghost)
  fault           \* a null device was dereferenced

vars == <<ipc, devices_cache, devices, idev, pool, dev, status, hw, disk,
          pc, fr, mem, log, done, fault>>

\* ------------------------------------------------------------ threads
Ctx == 1 .. NCtx
Thread == 0 .. NCtx

\* one port access as the log keeps it; n counts a run of identical accesses
Entry(o, p, v, k) == [op |-> o, port |-> p, val |-> v, n |-> k]
LogOut(l, p, v) == Append(l, Entry("out", p, v, 1))
LogIn(l, p) == Append(l, Entry("in", p, 0, 1))
\* a read whose value the log keeps
LogInVal(l, p, v) == Append(l, Entry("in", p, v, 1))
\* a status poll of a wait loop: the log keeps a run of polls of one port as one
\* entry, whatever its length
LogPoll(l, p) ==
  IF Len(l) > 0 /\ l[Len(l)].op = "poll" /\ l[Len(l)].port = p
  THEN l
  ELSE Append(l, Entry("poll", p, 0, 1))
\* the 256 word accesses of one sector
LogWords(l, o, p) == Append(l, Entry(o, p, 0, WordsPerSector))

\* ------------------------------------------------------------ controller
\* The simulated controller behind the primary port range.
LbaSpace == 2 ^ 28
HwZero == [drive |-> 0, count |-> 0, secnum |-> 0, cyl_lo |-> 0, cyl_hi |-> 0,
           cmd |-> "none", unit |-> 0, lba |-> 0, total |-> 0, pos |-> 0]

\* sectors a value of the sector-count register commands: 0 means 256
SectorsCommanded(count) == IF count = 0 THEN 256 ELSE count

\* the logical block address the task file holds
TaskFileLba(h) ==
  (h.drive % 16) * (2 ^ 24) + h.cyl_hi * (2 ^ 16) + h.cyl_lo * (2 ^ 8) + h.secnum
\* the unit the drive/head register selects: bit 4 clear is the master
TaskFileUnit(h) == IF HasBit(h.drive, 16) THEN 1 ELSE 0

\* a command latches the task file; the registers are kept no longer than that
HwCommand(h, v) ==
  IF v = ATA_CMD_READ_SECTORS \/ v = ATA_CMD_WRITE_SECTORS
  THEN [HwZero EXCEPT !.cmd = IF v = ATA_CMD_READ_SECTORS THEN "read" ELSE "write",
                      !.unit = TaskFileUnit(h), !.lba = TaskFileLba(h),
                      !.total = SectorsCommanded(h.count) * WordsPerSector]
  ELSE IF v = ATA_CMD_IDENTIFY
  THEN [HwZero EXCEPT !.cmd = "ident", !.unit = TaskFileUnit(h),
                      !.total = WordsPerSector]
  ELSE HwZero

\* outb(port, v) as the controller sees it; other ports are not its own
HwOutb(h, port, v) ==
  CASE port = ATA_PRIMARY_BUS + ATA_REG_SECTOR_COUNT -> [h EXCEPT !.count = v]
    [] port = ATA_PRIMARY_BUS + ATA_REG_SECTOR_NUMBER -> [h EXCEPT !.secnum = v]
    [] port = ATA_PRIMARY_BUS + ATA_REG_CYLINDER_LOW -> [h EXCEPT !.cyl_lo = v]
    [] port = ATA_PRIMARY_BUS + ATA_REG_CYLINDER_HIGH -> [h EXCEPT !.cyl_hi = v]
    [] port = ATA_PRIMARY_BUS + ATA_REG_DRIVE -> [h EXCEPT !.drive = v]
    [] port = ATA_PRIMARY_BUS + ATA_REG_COMMAND -> HwCommand(h, v)
    [] OTHER -> h

\* what the data register yields when no transfer is pending
GarbageWord == 2 ^ 16 - 1
\* the sector store keeps the words that are not zero: <<unit, lba, index>> -> word
DiskWord(d, u, l, i) ==
  IF <<u, l, i>> \in DOMAIN d THEN d[<<u, l, i>>] ELSE 0

\* the word the data register yields at cursor position q of a read
HwWordAt(h, d, q) ==
  IF h.cmd = "read" /\ q < h.total
  THEN DiskWord(d, h.unit, (h.lba + (q \div WordsPerSector)) % LbaSpace,
                q % WordsPerSector)
  ELSE IF h.cmd = "ident" /\ q < h.total THEN 0
  ELSE GarbageWord

\* k consecutive inw(data): the words read
HwInWords(h, d, k) == [j \in 1 .. k |-> HwWordAt(h, d, h.pos + j - 1)]

\* the controller ends a command whose error the host has read
HwErrorRead(h, st) ==
  IF HasBit(st, ATA_STATUS_ERR)
  THEN [h EXCEPT !.cmd = "none", !.unit = 0, !.lba = 0, !.total = 0, !.pos = 0]
  ELSE h

\* the transfer is over with its last word
HwAdvance(h, k) ==
  IF h.cmd = "none" THEN h
  ELSE IF h.pos + k >= h.total THEN [h EXCEPT !.cmd = "none", !.unit = 0, !.lba = 0,
                                               !.total = 0, !.pos = 0]
  ELSE [h EXCEPT !.pos = h.pos + k]

\* Len(W) consecutive outw(data, W[j]): the sector store after them
HwOutWords(h, d, W) ==
  IF h.cmd # "write" THEN d
  ELSE
    LET hi == Min(h.pos + Len(W), h.total)
        Key(q) == <<h.unit, (h.lba + (q \div WordsPerSector)) % LbaSpace,
                    q % WordsPerSector>>
        written == { Key(q) : q \in h.pos .. (hi - 1) }
        Pos(k) == ((k[2] - h.lba) % LbaSpace) * WordsPerSector + k[3]
        kept == (DOMAIN d \ written)
                  \cup { Key(q) : q \in { x \in h.pos .. (hi - 1) :
                                           W[x - h.pos + 1] # 0 } }
    IN [k \in kept |-> IF k \in written THEN W[Pos(k) - h.pos + 1] ELSE d[k]]

\* values the status register takes
StatusSet == {0, ATA_STATUS_ERR, ATA_STATUS_RDY + ATA_STATUS_DRQ,
              ATA_STATUS_BSY, FloatingStatus}
\* values a port outside the controller's range reads as
NoiseSet == {0, 255}

\* ------------------------------------------------------------ state
DevZero == [next |-> NULL, bus |-> 0, ctrl |-> 0, spinlock |-> 0, wait_irq |-> 0]
FrZero == [op |-> "none", dev |-> NULL, slave |-> 0, lba |-> 0, buff |-> NULL,
           sectors |-> 0, i |-> 0, j |-> 0, ptr |-> 0, reg |-> 0, tmp |-> 0,
           cl |-> 0, ch |-> 0, ret |-> 0]
NoWrite == [slave |-> 0 - 1, lba |-> 0, sectors |-> 0, buff |-> NULL]

Init ==
  /\ ipc = "start"
  /\ devices_cache = "NULL"
  /\ devices = NULL
  /\ idev = NULL
  /\ pool = [live |-> 0, allocs |-> 0, frees |-> 0]
  /\ dev = DevZero
  /\ status \in StatusSet
  /\ hw = HwZero
  /\ disk = <<>>
  /\ pc = [c \in Ctx |-> "idle"]
  /\ fr = [c \in Ctx |-> FrZero]
  /\ mem = [c \in Ctx |-> <<>>]
  /\ log = [t \in Thread |-> <<>>]
  /\ done = [c \in Ctx |-> NoWrite]
  /\ fault = FALSE

\* a null dereference is fatal: nothing runs after it
Live == ~fault

\* ------------------------------------------------------------ device
\* the device changes its status register on its own
DevStatus ==
  /\ Live
  /\ \E v \in StatusSet : v # status /\ status' = v
  /\ UNCHANGED <<ipc, devices_cache, devices, idev, pool, dev, hw, disk,
                 pc, fr, mem, log, done, fault>>

\* ------------------------------------------------------------ inline helpers
\* ata_has_err with the mask of another status bit
ata_has_err_drq(st) == HasBit(st, ATA_STATUS_DRQ)
\* ata_has_err, ata_is_ready, ata_is_busy, ata_check_floating_bus on a status value
ata_has_err(st) == HasBit(st, ATA_STATUS_ERR)
ata_is_ready(st) == HasBit(st, ATA_STATUS_RDY)
ata_is_busy(st) == HasBit(st, ATA_STATUS_BSY)
ata_check_floating_bus(st) == st = FloatingStatus
\* the value ata_select_drive writes to the drive register
ata_select_drive(slave) == IF slave # 0 THEN 160 ELSE 176

\* ------------------------------------------------------------ ata_init
BootUnchanged == UNCHANGED <<pc, fr, mem, done, fault, disk>>

\* cache_create: the pool is built, or it is not and ata_init returns
ata_init ==
  /\ ipc = "start"
  /\ \/ devices_cache' = "cache" /\ ipc' = "alloc"
     \/ devices_cache' = "NULL" /\ ipc' = "done"
  /\ UNCHANGED <<devices, idev, pool, dev, status, hw, log>>
  /\ BootUnchanged

\* ata_init_device: cache_alloc, then bus and ctrl are set
ata_init_device ==
  /\ ipc = "alloc"
  /\ \/ /\ pool.live = 0
        /\ idev' = 1
        /\ pool' = [pool EXCEPT !.live = @ + 1, !.allocs = @ + 1]
        /\ dev' = [DevZero EXCEPT !.bus = ATA_PRIMARY_BUS, !.ctrl = ATA_PRIMARY_CTRL]
        /\ ipc' = "floating"
        /\ UNCHANGED devices
     \/ /\ idev' = NULL
        /\ devices' = NULL
        /\ ipc' = "done"
        /\ UNCHANGED <<pool, dev>>
  /\ UNCHANGED <<devices_cache, status, hw, log>>
  /\ BootUnchanged

\* a failing path of ata_init_device that returns NULL without cache_free
InitDeviceFail_leak ==
  /\ pool' = pool
  /\ idev' = NULL
  /\ devices' = NULL
  /\ ipc' = "done"

\* a failing path of ata_init_device: cache_free, return NULL, assigned to devices
InitDeviceFail ==
  /\ pool' = [pool EXCEPT !.live = @ - 1, !.frees = @ + 1]
  /\ idev' = NULL
  /\ devices' = NULL
  /\ ipc' = "done"

ata_init_device_floating ==
  /\ ipc = "floating"
  /\ log' = [log EXCEPT ![0] = LogIn(@, dev.bus + ATA_REG_STATUS)]
  /\ IF ata_check_floating_bus(status)
     THEN InitDeviceFail
     ELSE ipc' = "identify" /\ UNCHANGED <<pool, idev, devices>>
  /\ UNCHANGED <<devices_cache, dev, status, hw>>
  /\ BootUnchanged

\* ------------------------------------------------------------ ata_identify
RECURSIVE HwOutAll(_, _)
HwOutAll(h, ws) ==
  IF ws = <<>> THEN h ELSE HwOutAll(HwOutb(h, Head(ws)[1], Head(ws)[2]), Tail(ws))
RECURSIVE LogOutAll(_, _)
LogOutAll(l, ws) ==
  IF ws = <<>> THEN l ELSE LogOutAll(LogOut(l, Head(ws)[1], Head(ws)[2]), Tail(ws))

\* the register writes that open ata_identify, in program order
IdentifyWrites(bus, slave) ==
  << <<bus + ATA_REG_DRIVE, ata_select_drive(slave)>>,
     <<bus + ATA_REG_SECTOR_COUNT, 0>>,
     <<bus + ATA_REG_SECTOR_NUMBER, 0>>,
     <<bus + ATA_REG_CYLINDER_LOW, 0>>,
     <<bus + ATA_REG_CYLINDER_HIGH, 0>>,
     <<bus + ATA_REG_COMMAND, ATA_CMD_IDENTIFY>> >>

IdentifyUnchanged == UNCHANGED <<devices_cache, dev, status>>

ata_identify ==
  /\ ipc = "identify"
  /\ hw' = HwOutAll(hw, IdentifyWrites(dev.bus, 0))
  /\ log' = [log EXCEPT ![0] = LogOutAll(@, IdentifyWrites(dev.bus, 0))]
  /\ ipc' = "id_status"
  /\ UNCHANGED <<pool, idev, devices>>
  /\ IdentifyUnchanged /\ BootUnchanged

\* status == 0: the device does not exist
ata_identify_status ==
  /\ ipc = "id_status"
  /\ log' = [log EXCEPT ![0] = LogIn(@, dev.bus + ATA_REG_STATUS)]
  /\ IF status = 0
     THEN InitDeviceFail
     ELSE ipc' = "id_busy" /\ UNCHANGED <<pool, idev, devices>>
  /\ UNCHANGED hw
  /\ IdentifyUnchanged /\ BootUnchanged

\* while(ata_is_busy(bus)) ;
ata_identify_busy ==
  /\ ipc = "id_busy"
  /\ log' = [log EXCEPT ![0] = LogPoll(@, dev.bus + ATA_REG_STATUS)]
  /\ ipc' = IF ata_is_busy(status) THEN "id_busy" ELSE "id_cyl"
  /\ UNCHANGED <<pool, idev, devices, hw>>
  /\ IdentifyUnchanged /\ BootUnchanged

\* values the device leaves in a cylinder register
CylSet == {0, 20, 235, 60, 195, 105, 150, 255}

\* inb(CYLINDER_LOW) || inb(CYLINDER_HIGH): the second read only after a zero
ata_identify_cyl ==
  /\ ipc = "id_cyl"
  /\ \E lo \in {0, 20}, hi \in {0, 235} :
       /\ log' = [log EXCEPT ![0] =
                    IF lo # 0 THEN LogInVal(@, dev.bus + ATA_REG_CYLINDER_LOW, lo)
                    ELSE LogInVal(LogInVal(@, dev.bus + ATA_REG_CYLINDER_LOW, lo),
                                  dev.bus + ATA_REG_CYLINDER_HIGH, hi)]
       /\ IF lo # 0 \/ hi # 0
          THEN InitDeviceFail
          ELSE ipc' = "id_poll" /\ UNCHANGED <<pool, idev, devices>>
  /\ UNCHANGED hw
  /\ IdentifyUnchanged /\ BootUnchanged

\* ata_identify without the test of the error flag after the poll
ata_identify_poll_unchecked ==
  /\ ipc = "id_poll"
  /\ log' = [log EXCEPT ![0] = LogPoll(@, dev.bus + ATA_REG_STATUS)]
  /\ ipc' = IF ~HasBit(status, ATA_STATUS_ERR) /\ ~HasBit(status, ATA_STATUS_DRQ)
            THEN "id_poll" ELSE "id_data"
  /\ hw' = IF ~HasBit(status, ATA_STATUS_ERR) /\ ~HasBit(status, ATA_STATUS_DRQ)
           THEN hw ELSE HwErrorRead(hw, status)
  /\ UNCHANGED <<pool, idev, devices>>
  /\ IdentifyUnchanged /\ BootUnchanged

\* do status = inb(STATUS); while(!ERR && !DRQ); then the error test
ata_identify_poll ==
  /\ ipc = "id_poll"
  /\ log' = [log EXCEPT ![0] = LogPoll(@, dev.bus + ATA_REG_STATUS)]
  /\ IF ~HasBit(status, ATA_STATUS_ERR) /\ ~HasBit(status, ATA_STATUS_DRQ)
     THEN ipc' = "id_poll" /\ UNCHANGED <<pool, idev, devices>>
     ELSE IF HasBit(status, ATA_STATUS_ERR)
     THEN InitDeviceFail
     ELSE ipc' = "id_data" /\ UNCHANGED <<pool, idev, devices>>
  /\ hw' = IF ~HasBit(status, ATA_STATUS_ERR) /\ ~HasBit(status, ATA_STATUS_DRQ)
           THEN hw ELSE HwErrorRead(hw, status)
  /\ IdentifyUnchanged /\ BootUnchanged

\* the 256 inw of ata_identify, then the rest of ata_init_device and of ata_init
ata_identify_data ==
  /\ ipc = "id_data"
  /\ log' = [log EXCEPT ![0] = LogWords(@, "inw", dev.bus + ATA_REG_DATA)]
  /\ hw' = HwAdvance(hw, WordsPerSector)
  /\ devices' = idev
  /\ ipc' = "done"
  /\ UNCHANGED <<pool, idev>>
  /\ IdentifyUnchanged /\ BootUnchanged

Boot ==
  \/ ata_init
  \/ ata_init_device
  \/ ata_init_device_floating
  \/ ata_identify
  \/ ata_identify_status
  \/ ata_identify_busy
  \/ ata_identify_cyl
  \/ ata_identify_poll
  \/ ata_identify_data

\* ------------------------------------------------------------ hooks
Booted == ipc = "done"
BootVars == <<ipc, devices_cache, devices, idev, pool>>

\* dev = devices; dev->wait_irq = 0;  (no test of dev)
ata_irq ==
  /\ Booted /\ Live
  /\ IF devices = NULL
     THEN fault' = TRUE /\ UNCHANGED dev
     ELSE dev' = [dev EXCEPT !.wait_irq = 0] /\ UNCHANGED fault
  /\ UNCHANGED <<BootVars, status, hw, disk, pc, fr, mem, log, done>>

\* the list walk of ata_err_check from record d on: the records it visits
RECURSIVE ErrCheckVisits(_)
ErrCheckVisits(d) == IF d = NULL THEN {} ELSE {d} \cup ErrCheckVisits(dev.next)

\* ata_err_check with the error test negated: d->wait_irq && !ata_has_err(d)
ata_err_check_negated ==
  /\ Booted /\ Live
  /\ IF ErrCheckVisits(devices) # {} /\ dev.wait_irq # 0
     THEN dev' = IF ~ata_has_err(status) THEN [dev EXCEPT !.wait_irq = 0] ELSE dev
     ELSE UNCHANGED dev
  /\ UNCHANGED <<BootVars, status, hw, disk, pc, fr, mem, log, done, fault>>

\* d = devices; while(d) { if(d->wait_irq && ata_has_err(d)) d->wait_irq = 0; d = d->next; }
ata_err_check ==
  /\ Booted /\ Live
  /\ IF ErrCheckVisits(devices) # {} /\ dev.wait_irq # 0
     THEN dev' = IF ata_has_err(status) THEN [dev EXCEPT !.wait_irq = 0] ELSE dev
     ELSE UNCHANGED dev
  /\ UNCHANGED <<BootVars, status, hw, disk, pc, fr, mem, log, done, fault>>

\* ------------------------------------------------------------ callers
\* the caller's buffers: a null pointer, or a buffer named by the pattern it holds:
\* buffer 1 is zero-filled; another buffer tags the first two words and the last
\* word of each sector with their position and is zero elsewhere
TaggedWords == {0, 1, WordsPerSector - 1}
BufWord(seed, k) ==
  IF seed # 1 /\ (k % WordsPerSector) \in TaggedWords
  THEN (seed * 1000 + k) % 65536 ELSE 0
DevArgs(A) ==
  IF devices = NULL THEN {NULL}
  ELSE IF A.devnull THEN {NULL, devices} ELSE {devices}

CallUnchanged == Live /\ UNCHANGED <<BootVars, status, fault>>
ClientUnchanged == CallUnchanged /\ UNCHANGED done
\* the record of the last write is kept for the read that repeats its arguments
Keep(c, op, slave, lba, sectors) ==
  done' = [done EXCEPT ![c] =
    IF op = "read" /\ @.slave = slave /\ @.lba = lba /\ @.sectors = sectors
    THEN @ ELSE NoWrite]

\* the call has returned: the caller takes the result and the frame is gone
Return(c, A) ==
  /\ pc[c] = "ret" /\ Live
  /\ pc' = [pc EXCEPT ![c] = "idle"]
  /\ done' = [done EXCEPT ![c] =
       IF A.track /\ fr[c].op = "write" /\ fr[c].ret = 0
       THEN [slave |-> fr[c].slave, lba |-> fr[c].lba,
             sectors |-> fr[c].sectors, buff |-> fr[c].buff]
       ELSE NoWrite]
  /\ fr' = [fr EXCEPT ![c] = FrZero]
  /\ mem' = [mem EXCEPT ![c] = <<>>]
  /\ log' = [log EXCEPT ![c] = <<>>]
  /\ UNCHANGED <<BootVars, status, dev, hw, disk, fault>>

\* ------------------------------------------------------------ spinlock, wait
\* spin_lock(&dev->spinlock): spins until the lock is free, then owns it
spin_lock(c) ==
  /\ pc[c] \in {"rd_lock", "wr_lock"}
  /\ dev.spinlock = 0
  /\ dev' = [dev EXCEPT !.spinlock = c]
  /\ pc' = [pc EXCEPT ![c] = IF pc[c] = "rd_lock" THEN "rd_setup" ELSE "wr_setup"]
  /\ UNCHANGED <<hw, disk, fr, mem, log>>
  /\ ClientUnchanged

\* ata_wait_ready, first statement: dev->wait_irq = 1
ata_wait_ready(c) ==
  /\ pc[c] = "wait_arm"
  /\ dev' = [dev EXCEPT !.wait_irq = 1]
  /\ pc' = [pc EXCEPT ![c] = "wait_test"]
  /\ UNCHANGED <<hw, disk, fr, mem, log>>
  /\ ClientUnchanged

\* the loop test with the negation lost: dev->wait_irq && ata_is_ready(dev->bus)
ata_wait_ready_negated(c) ==
  /\ pc[c] = "wait_test"
  /\ IF dev.wait_irq = 0
     THEN /\ pc' = [pc EXCEPT ![c] = "wait_done"]
          /\ UNCHANGED log
     ELSE /\ pc' = [pc EXCEPT ![c] = IF ata_is_ready(status) THEN "wait_yield"
                                     ELSE "wait_done"]
          /\ log' = [log EXCEPT ![c] = LogPoll(@, dev.bus + ATA_REG_STATUS)]
  /\ UNCHANGED <<dev, hw, disk, fr, mem>>
  /\ ClientUnchanged

\* the loop test without the status: while(dev->wait_irq)
ata_wait_ready_flag_only(c) ==
  /\ pc[c] = "wait_test"
  /\ pc' = [pc EXCEPT ![c] = IF dev.wait_irq = 0 THEN "wait_done" ELSE "wait_yield"]
  /\ UNCHANGED <<dev, hw, disk, fr, mem, log>>
  /\ ClientUnchanged

\* the loop test: dev->wait_irq && !ata_is_ready(dev->bus); the status is read
\* only when the flag is still set
ata_wait_ready_test(c) ==
  /\ pc[c] = "wait_test"
  /\ IF dev.wait_irq = 0
     THEN /\ pc' = [pc EXCEPT ![c] = "wait_done"]
          /\ UNCHANGED log
     ELSE /\ pc' = [pc EXCEPT ![c] = IF ata_is_ready(status) THEN "wait_done"
                                     ELSE "wait_yield"]
          /\ log' = [log EXCEPT ![c] = LogPoll(@, dev.bus + ATA_REG_STATUS)]
  /\ UNCHANGED <<dev, hw, disk, fr, mem>>
  /\ ClientUnchanged

\* kernel_wait() gives the processor away and returns some time later
kernel_wait(c) ==
  /\ pc[c] = "wait_yield"
  /\ pc' = [pc EXCEPT ![c] = "wait_test"]
  /\ UNCHANGED <<dev, hw, disk, fr, mem, log>>
  /\ ClientUnchanged

\* ata_wait_ready without its last statement: the flag is left as it is
ata_wait_ready_done_kept(c) ==
  /\ pc[c] = "wait_done"
  /\ pc' = [pc EXCEPT ![c] = IF fr[c].op = "read" THEN "rd_err" ELSE "wr_err"]
  /\ UNCHANGED <<dev, hw, disk, fr, mem, log>>
  /\ ClientUnchanged

\* ata_wait_ready, last statement: dev->wait_irq = 0
ata_wait_ready_done(c) ==
  /\ pc[c] = "wait_done"
  /\ dev' = [dev EXCEPT !.wait_irq = 0]
  /\ pc' = [pc EXCEPT ![c] = IF fr[c].op = "read" THEN "rd_err" ELSE "wr_err"]
  /\ UNCHANGED <<hw, disk, fr, mem, log>>
  /\ ClientUnchanged

\* ------------------------------------------------------------ ata_read
\* the argument test with the bound one too high: sectors > 0x100
InvalidArgs_loose(d, buff, sectors) == d = NULL \/ buff = NULL \/ sectors > MaxSectors + 1
\* the argument test of ata_read and ata_write
InvalidArgs(d, buff, sectors) == d = NULL \/ buff = NULL \/ sectors > MaxSectors

\* ata_read entered without spin_lock(&dev->spinlock)
ata_read_unguarded(c, A) ==
  /\ Booted /\ pc[c] = "idle"
  /\ \E d \in DevArgs(A), slave \in A.slaves, lba \in A.lbas,
        buff \in A.rbuffs, sectors \in A.counts :
       /\ fr' = [fr EXCEPT ![c] =
            [FrZero EXCEPT !.op = "read", !.dev = d, !.slave = slave, !.lba = lba,
                           !.buff = buff, !.sectors = sectors,
                           !.ret = IF InvalidArgs(d, buff, sectors) THEN 0 - 1 ELSE 0]]
       /\ pc' = [pc EXCEPT ![c] =
            IF InvalidArgs(d, buff, sectors) THEN "ret" ELSE "rd_setup"]
       /\ mem' = [mem EXCEPT ![c] = <<>>]
       /\ Keep(c, "read", slave, lba, sectors)
  /\ log' = [log EXCEPT ![c] = <<>>]
  /\ UNCHANGED <<dev, hw, disk>>
  /\ CallUnchanged

\* entry of ata_read: if(!dev || !buff || sectors > 0xff) return -1;
ata_read(c, A) ==
  /\ Booted /\ pc[c] = "idle"
  /\ \E d \in DevArgs(A), slave \in A.slaves, lba \in A.lbas,
        buff \in A.rbuffs, sectors \in A.counts :
       /\ fr' = [fr EXCEPT ![c] =
            [FrZero EXCEPT !.op = "read", !.dev = d, !.slave = slave, !.lba = lba,
                           !.buff = buff, !.sectors = sectors,
                           !.ret = IF InvalidArgs(d, buff, sectors) THEN 0 - 1 ELSE 0]]
       /\ pc' = [pc EXCEPT ![c] =
            IF InvalidArgs(d, buff, sectors) THEN "ret" ELSE "rd_lock"]
       /\ mem' = [mem EXCEPT ![c] = <<>>]
       /\ Keep(c, "read", slave, lba, sectors)
  /\ log' = [log EXCEPT ![c] = <<>>]
  /\ UNCHANGED <<dev, hw, disk>>
  /\ CallUnchanged

\* the register writes of ata_read with the cylinder-low byte taken unshifted
ata_read_writes_unshifted(f) ==
  << <<dev.bus + ATA_REG_DRIVE,
       (IF f.slave # 0 THEN 224 ELSE 240) + (Shr(f.lba, 24) % 16)>>,
     <<dev.bus + ATA_REG_SECTOR_COUNT, U8(f.sectors)>>,
     <<dev.bus + ATA_REG_SECTOR_NUMBER, U8(f.lba)>>,
     <<dev.bus + ATA_REG_CYLINDER_LOW, U8(f.lba)>>,
     <<dev.bus + ATA_REG_CYLINDER_HIGH, U8(Shr(f.lba, 16))>>,
     <<dev.bus + ATA_REG_COMMAND, ATA_CMD_READ_SECTORS>> >>

\* the six register writes of ata_read, in program order
ata_read_writes(f) ==
  << <<dev.bus + ATA_REG_DRIVE,
       (IF f.slave # 0 THEN 224 ELSE 240) + (Shr(f.lba, 24) % 16)>>,
     <<dev.bus + ATA_REG_SECTOR_COUNT, U8(f.sectors)>>,
     <<dev.bus + ATA_REG_SECTOR_NUMBER, U8(f.lba)>>,
     <<dev.bus + ATA_REG_CYLINDER_LOW, U8(Shr(f.lba, 8))>>,
     <<dev.bus + ATA_REG_CYLINDER_HIGH, U8(Shr(f.lba, 16))>>,
     <<dev.bus + ATA_REG_COMMAND, ATA_CMD_READ_SECTORS>> >>

\* one outb of the setup; after the last, i = 0 and the loop test i < sectors
ata_read_setup(c) ==
  /\ pc[c] = "rd_setup"
  /\ LET w == ata_read_writes(fr[c])[fr[c].j + 1]
         last == fr[c].j + 1 = Len(ata_read_writes(fr[c]))
     IN /\ hw' = HwOutb(hw, w[1], w[2])
        /\ log' = [log EXCEPT ![c] = LogOut(@, w[1], w[2])]
        /\ fr' = [fr EXCEPT ![c].j = IF last THEN 0 ELSE @ + 1, ![c].i = 0]
        /\ pc' = [pc EXCEPT ![c] =
             IF ~last THEN "rd_setup"
             ELSE IF 0 < fr[c].sectors THEN "wait_arm" ELSE "rd_exit"]
  /\ UNCHANGED <<dev, disk, mem>>
  /\ ClientUnchanged

\* if(ata_has_err(dev)): one status read
ata_read_err(c) ==
  /\ pc[c] = "rd_err"
  /\ log' = [log EXCEPT ![c] = LogIn(@, dev.bus + ATA_REG_STATUS)]
  /\ pc' = [pc EXCEPT ![c] = IF ata_has_err(status) THEN "rd_fail" ELSE "rd_xfer"]
  /\ hw' = HwErrorRead(hw, status)
  /\ UNCHANGED <<dev, disk, fr, mem>>
  /\ ClientUnchanged

\* the error return of ata_read without its spin_unlock
ata_read_fail_locked(c) ==
  /\ pc[c] = "rd_fail"
  /\ fr' = [fr EXCEPT ![c].ret = 0 - 1]
  /\ pc' = [pc EXCEPT ![c] = "ret"]
  /\ UNCHANGED <<dev, hw, disk, mem, log>>
  /\ ClientUnchanged

\* spin_unlock(&dev->spinlock); return -1;
ata_read_fail(c) ==
  /\ pc[c] = "rd_fail"
  /\ dev' = [dev EXCEPT !.spinlock = 0]
  /\ fr' = [fr EXCEPT ![c].ret = 0 - 1]
  /\ pc' = [pc EXCEPT ![c] = "ret"]
  /\ UNCHANGED <<hw, disk, mem, log>>
  /\ ClientUnchanged

\* the caller's memory keeps the words that are not zero: word index -> word
MemWord(m, k) == IF k \in DOMAIN m THEN m[k] ELSE 0
\* the receive buffer after the inner loop: store j (0 .. 255) puts W[j + 1] into
\* word ptr + j, buff advancing by sizeof(uint16_t), one word, after each store
StoreWords(m, ptr, W) ==
  LET stored == { ptr + j : j \in 0 .. (Len(W) - 1) }
      kept == (DOMAIN m \ stored) \cup { k \in stored : W[k - ptr + 1] # 0 }
  IN [k \in kept |-> IF k \in stored THEN W[k - ptr + 1] ELSE m[k]]

\* for(j = 0; j < 256; ++j) { *buff = inw(DATA); buff += 2; }
\* if(i >= sectors) ata_wait(dev->ctrl);  ++i;  i < sectors
ata_read_xfer(c) ==
  /\ pc[c] = "rd_xfer"
  /\ mem' = [mem EXCEPT ![c] =
       StoreWords(@, fr[c].ptr, HwInWords(hw, disk, WordsPerSector))]
  /\ hw' = HwAdvance(hw, WordsPerSector)
  /\ log' = [log EXCEPT ![c] =
       IF fr[c].i >= fr[c].sectors
       THEN LogIn(LogIn(LogIn(LogIn(LogWords(@, "inw", dev.bus + ATA_REG_DATA),
              dev.ctrl), dev.ctrl), dev.ctrl), dev.ctrl)
       ELSE LogWords(@, "inw", dev.bus + ATA_REG_DATA)]
  /\ fr' = [fr EXCEPT ![c].ptr = @ + WordsPerSector, ![c].i = @ + 1]
  /\ pc' = [pc EXCEPT ![c] =
       IF fr[c].i + 1 < fr[c].sectors THEN "wait_arm" ELSE "rd_exit"]
  /\ UNCHANGED <<dev, disk>>
  /\ ClientUnchanged

\* spin_unlock(&dev->spinlock); return 0;
ata_read_exit(c) ==
  /\ pc[c] = "rd_exit"
  /\ dev' = [dev EXCEPT !.spinlock = 0]
  /\ fr' = [fr EXCEPT ![c].ret = 0]
  /\ pc' = [pc EXCEPT ![c] = "ret"]
  /\ UNCHANGED <<hw, disk, mem, log>>
  /\ ClientUnchanged

\* ------------------------------------------------------------ ata_write
\* ata_write entered without spin_lock(&dev->spinlock)
ata_write_unguarded(c, A) ==
  /\ Booted /\ pc[c] = "idle"
  /\ \E d \in DevArgs(A), slave \in A.slaves, lba \in A.lbas,
        buff \in A.wbuffs, sectors \in A.counts :
       /\ fr' = [fr EXCEPT ![c] =
            [FrZero EXCEPT !.op = "write", !.dev = d, !.slave = slave, !.lba = lba,
                           !.buff = buff, !.sectors = sectors,
                           !.ret = IF InvalidArgs(d, buff, sectors) THEN 0 - 1 ELSE 0]]
       /\ pc' = [pc EXCEPT ![c] =
            IF InvalidArgs(d, buff, sectors) THEN "ret" ELSE "wr_setup"]
       /\ mem' = [mem EXCEPT ![c] = <<>>]
       /\ Keep(c, "write", slave, lba, sectors)
  /\ log' = [log EXCEPT ![c] = <<>>]
  /\ UNCHANGED <<dev, hw, disk>>
  /\ CallUnchanged

\* entry of ata_write: if(!dev || !buff || sectors > 0xff) return -1;
ata_write(c, A) ==
  /\ Booted /\ pc[c] = "idle"
  /\ \E d \in DevArgs(A), slave \in A.slaves, lba \in A.lbas,
        buff \in A.wbuffs, sectors \in A.counts :
       /\ fr' = [fr EXCEPT ![c] =
            [FrZero EXCEPT !.op = "write", !.dev = d, !.slave = slave, !.lba = lba,
                           !.buff = buff, !.sectors = sectors,
                           !.ret = IF InvalidArgs(d, buff, sectors) THEN 0 - 1 ELSE 0]]
       /\ pc' = [pc EXCEPT ![c] =
            IF InvalidArgs(d, buff, sectors) THEN "ret" ELSE "wr_lock"]
       /\ mem' = [mem EXCEPT ![c] = <<>>]
       /\ Keep(c, "write", slave, lba, sectors)
  /\ log' = [log EXCEPT ![c] = <<>>]
  /\ UNCHANGED <<dev, hw, disk>>
  /\ CallUnchanged

\* the register writes of ata_write with the two cylinder bytes in the other order
ata_write_writes_swapped(f) ==
  << <<dev.bus + ATA_REG_DRIVE,
       (IF f.slave # 0 THEN 224 ELSE 240) + (Shr(f.lba, 24) % 16)>>,
     <<dev.bus + ATA_REG_SECTOR_COUNT, U8(f.sectors)>>,
     <<dev.bus + ATA_REG_SECTOR_NUMBER, U8(f.lba)>>,
     <<dev.bus + ATA_REG_CYLINDER_HIGH, U8(Shr(f.lba, 16))>>,
     <<dev.bus + ATA_REG_CYLINDER_LOW, U8(Shr(f.lba, 8))>>,
     <<dev.bus + ATA_REG_COMMAND, ATA_CMD_WRITE_SECTORS>> >>

\* the six register writes of ata_write, in program order
ata_write_writes(f) ==
  << <<dev.bus + ATA_REG_DRIVE,
       (IF f.slave # 0 THEN 224 ELSE 240) + (Shr(f.lba, 24) % 16)>>,
     <<dev.bus + ATA_REG_SECTOR_COUNT, U8(f.sectors)>>,
     <<dev.bus + ATA_REG_SECTOR_NUMBER, U8(f.lba)>>,
     <<dev.bus + ATA_REG_CYLINDER_LOW, U8(Shr(f.lba, 8))>>,
     <<dev.bus + ATA_REG_CYLINDER_HIGH, U8(Shr(f.lba, 16))>>,
     <<dev.bus + ATA_REG_COMMAND, ATA_CMD_WRITE_SECTORS>> >>

\* one outb of the setup; after the last, i = 0 and the loop test i < sectors
ata_write_setup(c) ==
  /\ pc[c] = "wr_setup"
  /\ LET w == ata_write_writes(fr[c])[fr[c].j + 1]
         last == fr[c].j + 1 = Len(ata_write_writes(fr[c]))
     IN /\ hw' = HwOutb(hw, w[1], w[2])
        /\ log' = [log EXCEPT ![c] = LogOut(@, w[1], w[2])]
        /\ fr' = [fr EXCEPT ![c].j = IF last THEN 0 ELSE @ + 1, ![c].i = 0]
        /\ pc' = [pc EXCEPT ![c] =
             IF ~last THEN "wr_setup"
             ELSE IF 0 < fr[c].sectors THEN "wait_arm" ELSE "wr_flush"]
  /\ UNCHANGED <<dev, disk, mem>>
  /\ ClientUnchanged

\* if(ata_has_err(dev)): one status read
ata_write_err(c) ==
  /\ pc[c] = "wr_err"
  /\ log' = [log EXCEPT ![c] = LogIn(@, dev.bus + ATA_REG_STATUS)]
  /\ pc' = [pc EXCEPT ![c] = IF ata_has_err(status) THEN "wr_fail" ELSE "wr_xfer"]
  /\ hw' = HwErrorRead(hw, status)
  /\ UNCHANGED <<dev, disk, fr, mem>>
  /\ ClientUnchanged

\* spin_unlock(&dev->spinlock); return -1;
ata_write_fail(c) ==
  /\ pc[c] = "wr_fail"
  /\ dev' = [dev EXCEPT !.spinlock = 0]
  /\ fr' = [fr EXCEPT ![c].ret = 0 - 1]
  /\ pc' = [pc EXCEPT ![c] = "ret"]
  /\ UNCHANGED <<hw, disk, mem, log>>
  /\ ClientUnchanged

\* the words the inner loop takes from the buffer, from word ptr on
LoadWords(seed, ptr) == [j \in 1 .. WordsPerSector |-> BufWord(seed, ptr + j - 1)]

\* for(j = 0; j < 256; ++j) { outw(DATA, *buff); buff += 2; }  ++i;  i < sectors
ata_write_xfer(c) ==
  /\ pc[c] = "wr_xfer"
  /\ disk' = HwOutWords(hw, disk, LoadWords(fr[c].buff, fr[c].ptr))
  /\ hw' = HwAdvance(hw, WordsPerSector)
  /\ log' = [log EXCEPT ![c] = LogWords(@, "outw", dev.bus + ATA_REG_DATA)]
  /\ fr' = [fr EXCEPT ![c].ptr = @ + WordsPerSector, ![c].i = @ + 1]
  /\ pc' = [pc EXCEPT ![c] =
       IF fr[c].i + 1 < fr[c].sectors THEN "wait_arm" ELSE "wr_flush"]
  /\ UNCHANGED <<dev, mem>>
  /\ ClientUnchanged

\* ata_write with the cache flush left out
ata_write_flush_missing(c) ==
  /\ pc[c] = "wr_flush"
  /\ pc' = [pc EXCEPT ![c] = "wr_exit"]
  /\ UNCHANGED <<dev, hw, disk, fr, mem, log>>
  /\ ClientUnchanged

\* ata_command(dev->bus, ATA_CMD_CACHE_FLUSH)
ata_write_flush(c) ==
  /\ pc[c] = "wr_flush"
  /\ hw' = HwOutb(hw, dev.bus + ATA_REG_COMMAND, ATA_CMD_CACHE_FLUSH)
  /\ log' = [log EXCEPT ![c] = LogOut(@, dev.bus + ATA_REG_COMMAND, ATA_CMD_CACHE_FLUSH)]
  /\ pc' = [pc EXCEPT ![c] = "wr_exit"]
  /\ UNCHANGED <<dev, disk, fr, mem>>
  /\ ClientUnchanged

\* spin_unlock(&dev->spinlock); return 0;
ata_write_exit(c) ==
  /\ pc[c] = "wr_exit"
  /\ dev' = [dev EXCEPT !.spinlock = 0]
  /\ fr' = [fr EXCEPT ![c].ret = 0]
  /\ pc' = [pc EXCEPT ![c] = "ret"]
  /\ UNCHANGED <<hw, disk, mem, log>>
  /\ ClientUnchanged

\* ------------------------------------------------------------ ata_get_type
\* entry of ata_get_type: if(!dev) return ATA_TYPE_UNKNOWN;
ata_get_type(c, A) ==
  /\ Booted /\ pc[c] = "idle"
  /\ \E d \in DevArgs(A), slave \in A.slaves :
       /\ fr' = [fr EXCEPT ![c] =
            [FrZero EXCEPT !.op = "get_type", !.dev = d, !.slave = slave,
                           !.ret = ATA_TYPE_UNKNOWN]]
       /\ pc' = [pc EXCEPT ![c] = IF d = NULL THEN "ret" ELSE "gt_reset"]
       /\ Keep(c, "get_type", slave, 0, 0)
  /\ mem' = [mem EXCEPT ![c] = <<>>]
  /\ log' = [log EXCEPT ![c] = <<>>]
  /\ UNCHANGED <<dev, hw, disk>>
  /\ CallUnchanged

\* uint8_t reg = dev->ctrl + ATA_CTRL_DEVICE_CONTROL
ResetPort(ctrl) == U8(ctrl + ATA_CTRL_DEVICE_CONTROL)
\* what inb(port) yields: the (alternate) status on the controller's own ports
PortValues(port) ==
  IF port = ATA_PRIMARY_CTRL \/ port = ATA_PRIMARY_BUS + ATA_REG_STATUS
  THEN {status} ELSE NoiseSet

\* ata_reset: outb(reg, inb(reg) | 0b100); outb(reg, inb(reg) & ~0b100); one port
\* access per step
ata_reset(c) ==
  /\ pc[c] = "gt_reset"
  /\ LET reg == ResetPort(dev.ctrl)
     IN IF fr[c].j \in {0, 2}
        THEN /\ \E v \in PortValues(reg) :
                  fr' = [fr EXCEPT ![c].tmp = v, ![c].reg = reg, ![c].j = @ + 1]
             /\ log' = [log EXCEPT ![c] = LogIn(@, reg)]
             /\ hw' = hw
             /\ pc' = pc
        ELSE /\ LET v == IF fr[c].j = 1 THEN SetBit(fr[c].tmp, 4)
                         ELSE ClearBit(fr[c].tmp, 4)
                IN /\ hw' = HwOutb(hw, reg, v)
                   /\ log' = [log EXCEPT ![c] = LogOut(@, reg, v)]
             /\ fr' = [fr EXCEPT ![c].j = IF @ = 3 THEN 0 ELSE @ + 1,
                                  ![c].tmp = IF fr[c].j = 3 THEN 0 ELSE @,
                                  ![c].reg = IF fr[c].j = 3 THEN 0 ELSE @]
             /\ pc' = [pc EXCEPT ![c] = IF fr[c].j = 3 THEN "gt_select" ELSE "gt_reset"]
  /\ UNCHANGED <<dev, disk, mem>>
  /\ ClientUnchanged

\* ata_select_drive(dev->bus, slave)
ata_get_type_select(c) ==
  /\ pc[c] = "gt_select"
  /\ hw' = HwOutb(hw, dev.bus + ATA_REG_DRIVE, ata_select_drive(fr[c].slave))
  /\ log' = [log EXCEPT ![c] =
       LogOut(@, dev.bus + ATA_REG_DRIVE, ata_select_drive(fr[c].slave))]
  /\ pc' = [pc EXCEPT ![c] = "gt_wait"]
  /\ UNCHANGED <<dev, disk, fr, mem>>
  /\ ClientUnchanged

\* ata_wait(dev->ctrl): for(i = 0; i < 4; ++i) inb(port);
ata_wait(c) ==
  /\ pc[c] = "gt_wait"
  /\ log' = [log EXCEPT ![c] = LogIn(@, dev.ctrl)]
  /\ fr' = [fr EXCEPT ![c].j = IF @ + 1 < 4 THEN @ + 1 ELSE 0]
  /\ pc' = [pc EXCEPT ![c] = IF fr[c].j + 1 < 4 THEN "gt_wait" ELSE "gt_cl"]
  /\ UNCHANGED <<dev, hw, disk, mem>>
  /\ ClientUnchanged

\* the comparisons of ata_get_type with the two registers exchanged
Classify_exchanged(cl, ch) ==
  IF ch = 0 /\ cl = 0 THEN ATA_TYPE_PATA
  ELSE IF ch = 20 /\ cl = 235 THEN ATA_TYPE_PATAPI
  ELSE IF ch = 60 /\ cl = 195 THEN ATA_TYPE_SATA
  ELSE IF ch = 105 /\ cl = 150 THEN ATA_TYPE_SATAPI
  ELSE ATA_TYPE_UNKNOWN

\* the comparisons of ata_get_type, in program order
Classify(cl, ch) ==
  IF cl = 0 /\ ch = 0 THEN ATA_TYPE_PATA
  ELSE IF cl = 20 /\ ch = 235 THEN ATA_TYPE_PATAPI
  ELSE IF cl = 60 /\ ch = 195 THEN ATA_TYPE_SATA
  ELSE IF cl = 105 /\ ch = 150 THEN ATA_TYPE_SATAPI
  ELSE ATA_TYPE_UNKNOWN

\* cl = inb(dev->bus + ATA_REG_CYLINDER_LOW)
ata_get_type_cl(c, A) ==
  /\ pc[c] = "gt_cl"
  /\ \E v \in A.cyl : fr' = [fr EXCEPT ![c].cl = v]
  /\ log' = [log EXCEPT ![c] = LogIn(@, dev.bus + ATA_REG_CYLINDER_LOW)]
  /\ pc' = [pc EXCEPT ![c] = "gt_ch"]
  /\ UNCHANGED <<dev, hw, disk, mem>>
  /\ ClientUnchanged

\* ch = inb(dev->bus + ATA_REG_CYLINDER_HIGH), the comparisons and the return
ata_get_type_ch(c, A) ==
  /\ pc[c] = "gt_ch"
  /\ \E v \in A.cyl :
       fr' = [fr EXCEPT ![c].ch = v, ![c].ret = Classify(fr[c].cl, v)]
  /\ log' = [log EXCEPT ![c] = LogIn(@, dev.bus + ATA_REG_CYLINDER_HIGH)]
  /\ pc' = [pc EXCEPT ![c] = "ret"]
  /\ UNCHANGED <<dev, hw, disk, mem>>
  /\ ClientUnchanged

\* ------------------------------------------------------------ specification
\* what the callers of a scenario pass, and what the cylinder registers may hold
\* the concurrent scenario: valid calls on the registered device, zero-filled buffers
ConcArgs == [devnull |-> FALSE, slaves |-> {0}, lbas |-> {0}, counts |-> 1 .. MaxN,
             rbuffs |-> {1}, wbuffs |-> {1}, cyl |-> {0}, track |-> FALSE]

Client(c, A) ==
  \/ ata_read(c, A)
  \/ ata_write(c, A)
  \/ ata_get_type(c, A)
  \/ spin_lock(c)
  \/ ata_read_setup(c)
  \/ ata_write_setup(c)
  \/ ata_wait_ready(c)
  \/ ata_wait_ready_test(c)
  \/ kernel_wait(c)
  \/ ata_wait_ready_done(c)
  \/ ata_read_err(c)
  \/ ata_write_err(c)
  \/ ata_read_fail(c)
  \/ ata_write_fail(c)
  \/ ata_read_xfer(c)
  \/ ata_write_xfer(c)
  \/ ata_write_flush(c)
  \/ ata_read_exit(c)
  \/ ata_write_exit(c)
  \/ ata_reset(c)
  \/ ata_get_type_select(c)
  \/ ata_wait(c)
  \/ ata_get_type_cl(c, A)
  \/ ata_get_type_ch(c, A)
  \/ Return(c, A)

Hooks == ata_irq \/ ata_err_check \/ DevStatus

Next ==
  \/ Boot
  \/ Hooks
  \/ \E c \in Ctx : Client(c, ConcArgs)

Spec == Init /\ [][Next]_vars

\* the sequential scenario: one caller makes call after call, with every kind of
\* argument; interrupts, error polls and the device go on
SeqLbas == {180150001}
SeqArgs == [devnull |-> TRUE, slaves |-> {0, 1}, lbas |-> SeqLbas,
            counts |-> (0 .. MaxN) \cup {MaxSectors + 1},
            rbuffs |-> {NULL, 3}, wbuffs |-> {NULL, 2}, cyl |-> CylSet,
            track |-> TRUE]

NextSeq ==
  \/ Boot
  \/ Hooks
  \/ Client(1, SeqArgs)

SpecSeq == Init /\ [][NextSeq]_vars

\* the addressing scenario: one caller of one-sector calls at addresses that
\* exercise every byte of the address, and beyond 28 bits
SetupLbas == {0, 1, 255, 256, 65535, 65536, 2 ^ 24 - 1, 2 ^ 24, 180150001,
              2 ^ 28 - 1, 2 ^ 28, 2 ^ 30 + 180150001}
SetupArgs == [devnull |-> FALSE, slaves |-> {0, 1}, lbas |-> SetupLbas,
              counts |-> {1}, rbuffs |-> {1}, wbuffs |-> {1}, cyl |-> {0},
              track |-> FALSE]

NextSetup ==
  \/ Boot
  \/ Hooks
  \/ Client(1, SetupArgs)

SpecSetup == Init /\ [][NextSetup]_vars

\* a call in progress in context c takes its next step: the context is scheduled
Proceed(c) ==
  \/ ata_read_setup(c)
  \/ ata_write_setup(c)
  \/ ata_wait_ready(c)
  \/ ata_wait_ready_test(c)
  \/ kernel_wait(c)
  \/ ata_wait_ready_done(c)
  \/ ata_read_err(c)
  \/ ata_write_err(c)
  \/ ata_read_fail(c)
  \/ ata_write_fail(c)
  \/ ata_read_xfer(c)
  \/ ata_write_xfer(c)
  \/ ata_write_flush(c)
  \/ ata_read_exit(c)
  \/ ata_write_exit(c)

\* the scenario of the waits: one caller of valid calls, with interrupts, error
\* polls and status changes; the caller is rescheduled again and again while it
\* is inside a call
NextWait ==
  \/ Boot
  \/ Hooks
  \/ Client(1, ConcArgs)

SpecWait == Init /\ [][NextWait]_vars /\ WF_vars(Proceed(1))

\* the scenario of the error poll: one caller of valid calls, no interrupt is
\* delivered; the periodic error poll runs again and again and the caller is
\* rescheduled
NextPoll ==
  \/ Boot
  \/ ata_err_check
  \/ DevStatus
  \/ Client(1, ConcArgs)

SpecPoll ==
  Init /\ [][NextPoll]_vars /\ WF_vars(ata_err_check) /\ WF_vars(Proceed(1))
\* ------------------------------------------------------------ properties
ReadWrite == {"read", "write"}
LastOf(l) == l[Len(l)]
\* context c makes a step of its call
Stepped(c) == <<pc[c], fr[c]>>' # <<pc[c], fr[c]>>
\* the step is a port write or a transfer of data words issued by c
Wrote(c) ==
  /\ Len(log'[c]) = Len(log[c]) + 1
  /\ LastOf(log'[c]).op \in {"out", "inw", "outw"}
\* the ports of the device: the command block and the control block
DevicePorts == (dev.bus .. dev.bus + ATA_REG_COMMAND) \cup {dev.ctrl}
\* the step is an access by c to a port of the device
Accessed(c) ==
  /\ log'[c] # log[c] /\ log'[c] # <<>>
  /\ LastOf(log'[c]).port \in DevicePorts
\* c has issued the first port access of its call and has not returned
InSequence(c) == log[c] # <<>> /\ pc[c] # "ret"

NoInterleaving ==
  \A c \in Ctx, o \in Ctx :
    (c # o /\ fr[o].op \in ReadWrite /\ InSequence(o) /\ fr[c].op \in ReadWrite)
      => ~Wrote(c)
\* C1: while a read or write call of one context is between its first port write
\* and its return, no port write and no data-register access of a read or write
\* call of another context happens.
C1_NoInterleaving == [][NoInterleaving]_vars
\* two contexts are inside read/write calls: one has moved its first sector and
\* holds the guard, the other is kept out at the guard
C1_Witness ==
  \E c \in Ctx, o \in Ctx :
    /\ c # o
    /\ pc[o] = "rd_xfer" /\ fr[o].i = 1
    /\ pc[c] = "wr_lock"
    /\ dev.spinlock = o

GuardedAccess ==
  \A c \in Ctx :
    (Accessed(c) /\ \E o \in Ctx : o # c /\ InSequence(o)) => dev.spinlock = c
\* C2: a context accesses a port of the device while another context is inside a
\* register sequence (read, write or type probe) only if it holds the device's
\* guard.
C2_GuardedAccess == [][GuardedAccess]_vars

BadArgs(f) == f.dev = NULL \/ f.buff = NULL \/ f.sectors > 255
RejectsInvalid ==
  \A c \in Ctx :
    (fr'[c].op \in ReadWrite /\ BadArgs(fr'[c]))
      => /\ pc'[c] = "ret"
         /\ fr'[c].ret = 0 - 1
         /\ log'[c] = <<>>
         /\ dev'.spinlock # c
         /\ (pc[c] = "idle" => (dev' = dev /\ hw' = hw /\ disk' = disk))
\* C3: a call of ata_read or ata_write with a null device, a null buffer or more
\* than 255 sectors returns -1 at once: no port access, no guard taken, the device
\* record (guard and flag) and the controller untouched.
C3_RejectsInvalid == [][RejectsInvalid]_vars
\* a write with a device and a buffer but 256 sectors has returned -1
C3_Witness ==
  \E c \in Ctx :
    /\ pc[c] = "ret" /\ fr[c].op = "write" /\ fr[c].ret = 0 - 1
    /\ fr[c].dev # NULL /\ fr[c].buff # NULL /\ fr[c].sectors = 256
    /\ log[c] = <<>>

\* the data words and the error checks (the single status reads) of a port log
RECURSIVE DataWords(_)
DataWords(l) ==
  IF l = <<>> THEN 0
  ELSE (IF Head(l).op \in {"inw", "outw"} THEN Head(l).n ELSE 0) + DataWords(Tail(l))
RECURSIVE ErrChecks(_)
ErrChecks(l) ==
  IF l = <<>> THEN 0
  ELSE (IF Head(l).op = "in" THEN 1 ELSE 0) + ErrChecks(Tail(l))
ErrorStops ==
  \A c \in Ctx :
    /\ (pc[c] \in {"rd_err", "wr_err"} /\ Stepped(c) /\ HasBit(status, ATA_STATUS_ERR))
         => /\ pc'[c] \in {"rd_fail", "wr_fail"}
            /\ DataWords(log'[c]) = (ErrChecks(log'[c]) - 1) * 256
            /\ ErrChecks(log'[c]) <= fr[c].sectors
    /\ (pc[c] \in {"rd_fail", "wr_fail"} /\ Stepped(c))
         => /\ pc'[c] = "ret" /\ fr'[c].ret = 0 - 1
            /\ log'[c] = log[c] /\ hw' = hw /\ disk' = disk /\ mem' = mem
    /\ (pc[c] = "ret" /\ Stepped(c))
         => (pc'[c] = "idle" /\ hw' = hw /\ disk' = disk)
\* C4: when the error check of sector k (the k-th error check of the call) reads
\* a status with the error bit, the call has moved (k - 1) * 256 data words, makes
\* no port access after that status read and returns -1.
C4_ErrorStops == [][ErrorStops]_vars
\* a two-sector write has failed at its second sector: 256 words were moved
C4_Witness ==
  \E c \in Ctx :
    /\ pc[c] = "ret" /\ fr[c].op = "write" /\ fr[c].ret = 0 - 1
    /\ fr[c].sectors = 2
    /\ ErrChecks(log[c]) = 2 /\ DataWords(log[c]) = 256

ReadAfterWrite(c) ==
  /\ pc[c] = "ret" /\ fr[c].op = "read" /\ fr[c].ret = 0
  /\ fr[c].sectors > 0
  /\ done[c].slave = fr[c].slave /\ done[c].lba = fr[c].lba
  /\ done[c].sectors = fr[c].sectors
SignatureType(cl, ch) ==
  CASE cl = 0 /\ ch = 0 -> ATA_TYPE_PATA
    [] cl = 20 /\ ch = 235 -> ATA_TYPE_PATAPI
    [] cl = 60 /\ ch = 195 -> ATA_TYPE_SATA
    [] cl = 105 /\ ch = 150 -> ATA_TYPE_SATAPI
    [] OTHER -> ATA_TYPE_UNKNOWN
ProbeOrder(l) ==
  /\ Len(l) = 11
  /\ l[1].op = "in" /\ l[2].op = "out" /\ l[3].op = "in" /\ l[4].op = "out"
  /\ \A k \in 2 .. 4 : l[k].port = l[1].port
  /\ HasBit(l[2].val, 4) /\ ~HasBit(l[4].val, 4)
  /\ l[5].op = "out" /\ l[5].port = dev.bus + ATA_REG_DRIVE
  /\ \A k \in 6 .. 9 : l[k].op = "in" /\ l[k].port = dev.ctrl
  /\ l[10].op = "in" /\ l[10].port = dev.bus + ATA_REG_CYLINDER_LOW
  /\ l[11].op = "in" /\ l[11].port = dev.bus + ATA_REG_CYLINDER_HIGH
\* C6: ata_get_type returns the type of the signature the two cylinder registers
\* hold and UNKNOWN for any other pair; for a null device it returns UNKNOWN and
\* touches no port; otherwise its port accesses are the reset (read, write with
\* bit 2 set, read, write with bit 2 clear), the drive select, four reads of the
\* control port, and the reads of cylinder-low and cylinder-high, in this order.
C6_GetType ==
  \A c \in Ctx :
    (pc[c] = "ret" /\ fr[c].op = "get_type") =>
      IF fr[c].dev = NULL
      THEN fr[c].ret = ATA_TYPE_UNKNOWN /\ log[c] = <<>>
      ELSE fr[c].ret = SignatureType(fr[c].cl, fr[c].ch) /\ ProbeOrder(log[c])
\* a probe that read 0x69 / 0x96 has returned SATAPI
C6_Witness ==
  \E c \in Ctx :
    /\ pc[c] = "ret" /\ fr[c].op = "get_type" /\ fr[c].dev # NULL
    /\ fr[c].cl = 105 /\ fr[c].ch = 150
    /\ fr[c].ret = ATA_TYPE_SATAPI

FailingPcs == {"alloc", "floating", "id_status", "id_busy", "id_cyl", "id_poll"}
RegistrationFails ==
  /\ (ipc \in FailingPcs /\ ipc' = "done")
       => /\ idev' = NULL
          /\ devices = NULL /\ devices' = NULL
          /\ pool'.allocs = pool.allocs
          /\ pool'.frees = pool.allocs
          /\ pool'.live = 0
  /\ (ipc = "floating" /\ status = 255 /\ ipc' # ipc)
       => /\ ipc' = "done"
          /\ log'[0] = <<Entry("in", ATA_PRIMARY_BUS + ATA_REG_STATUS, 0, 1)>>
          /\ hw' = hw
  /\ ipc = "done" => (ipc' = "done" /\ log'[0] = log[0] /\ pool' = pool)
\* C7: when ata_init_device fails, no device is returned, the device list is
\* empty as before, the record taken from the pool (if one was) has been given
\* back once; on a floating bus the one status read is the only port access.
C7_RegistrationFails == [][RegistrationFails]_vars
\* the bus floated: one status read, the record back in the pool, no device
C7_Witness ==
  /\ ipc = "done" /\ devices = NULL
  /\ pool = [live |-> 0, allocs |-> 1, frees |-> 1]
  /\ Len(log[0]) = 1

ExitPcs == {"rd_fail", "rd_exit", "wr_fail", "wr_exit"}
GuardReleased ==
  \A c \in Ctx :
    /\ pc'[c] \in {"ret", "idle"} => dev'.spinlock # c
    /\ (dev.spinlock = c /\ dev'.spinlock # c)
         => (pc[c] \in ExitPcs /\ pc'[c] = "ret" /\ dev'.spinlock = 0)
    /\ (Stepped(c) /\ dev'.spinlock # dev.spinlock) => dev.spinlock \in {0, c}
\* C8: a context that has returned from ata_read or ata_write does not hold the
\* guard; the guard is given up only by its holder, on leaving the call, and is
\* taken only when free.
C8_GuardReleased == [][GuardReleased]_vars
\* a read that took the guard has failed and returned -1 while another context
\* has been waiting for the guard, which is free again
C8_Witness ==
  \E c \in Ctx, o \in Ctx :
    /\ pc[c] = "ret" /\ fr[c].op = "read" /\ fr[c].ret = 0 - 1 /\ log[c] # <<>>
    /\ pc[o] = "wr_lock"
    /\ dev.spinlock = 0

\* C9: no operation dereferences a null device, whatever ata_init has registered.
C9_NoFatal == ~fault

WaitPcs == {"wait_arm", "wait_test", "wait_yield", "wait_done"}
WaitReady ==
  \A c \in Ctx :
    /\ (pc[c] = "wait_arm" /\ Stepped(c))
         => (dev'.wait_irq = 1 /\ pc'[c] = "wait_test")
    /\ (pc[c] # "wait_done" /\ pc'[c] = "wait_done")
         => (pc[c] = "wait_test"
             /\ (dev.wait_irq = 0 \/ HasBit(status, ATA_STATUS_RDY)))
    /\ (pc[c] = "wait_test" /\ Stepped(c) /\ pc'[c] # "wait_done")
         => pc'[c] = "wait_yield"
    /\ (pc[c] # "wait_test" /\ pc'[c] = "wait_test")
         => pc[c] \in {"wait_arm", "wait_yield"}
    /\ (pc[c] \in WaitPcs /\ pc'[c] \notin WaitPcs)
         => (pc[c] = "wait_done" /\ dev'.wait_irq = 0)
\* C10: ata_wait_ready sets the flag and then tests; it leaves its loop only by a
\* test that finds the flag cleared or reads the status with the ready bit set; an
\* unsuccessful test is followed by kernel_wait and every test follows the arming
\* or a kernel_wait; the last step clears the flag.
C10_WaitReady == [][WaitReady]_vars
\* the wait for the second sector is over after a test that read the status: the
\* status does not show ready and the flag is clear
C10_Witness ==
  \E c \in Ctx :
    /\ pc[c] \in {"rd_err", "wr_err"} /\ fr[c].i = 1
    /\ LastOf(log[c]).op = "poll"
    /\ ~HasBit(status, ATA_STATUS_RDY)
    /\ dev.wait_irq = 0

\* the status shows the error bit and not the ready bit
ErrorOnly == HasBit(status, ATA_STATUS_ERR) /\ ~HasBit(status, ATA_STATUS_RDY)
\* c is in the loop of ata_wait_ready inside a read or a write
Blocked(c) == pc[c] \in {"wait_test", "wait_yield"} /\ fr[c].op \in ReadWrite
FailedCall(c) == pc[c] = "ret" /\ fr[c].op \in ReadWrite /\ fr[c].ret = 0 - 1
\* a pass of ata_err_check changes the record only by clearing the flag of an
\* armed device whose status shows the error bit
ErrCheckClears ==
  ata_err_check =>
    (dev' # dev =>
       /\ dev.wait_irq # 0 /\ HasBit(status, ATA_STATUS_ERR)
       /\ dev' = [dev EXCEPT !.wait_irq = 0])
\* C11: with no interrupt delivered, the error poll running and the waiter
\* rescheduled, a context blocked in ata_wait_ready while the status shows the
\* error bit and not the ready bit gets out and its read or write returns -1,
\* unless the status changes; a pass of ata_err_check leaves the flag of a device
\* that is not armed, or that shows no error, as it is.
C11_ErrCheck ==
  /\ \A c \in Ctx :
       (Blocked(c) /\ ErrorOnly) ~> (FailedCall(c) \/ ~ErrorOnly)
  /\ [][ErrCheckClears]_vars
\* the waiter has tested and yielded; the error poll has cleared its flag
C11_Witness ==
  \E c \in Ctx :
    /\ pc[c] = "wait_yield" /\ fr[c].op = "read"
    /\ ErrorOnly
    /\ dev.wait_irq = 0

FlagSet == dev.wait_irq = 0 /\ dev'.wait_irq # 0
FlagCleared == dev.wait_irq # 0 /\ dev'.wait_irq = 0
\* the step is the first or the last statement of ata_wait_ready, run by the
\* holder of the guard
HolderArms == \E c \in Ctx : dev.spinlock = c /\ ata_wait_ready(c)
HolderClears == \E c \in Ctx : dev.spinlock = c /\ ata_wait_ready_done(c)
FlagPathsStated ==
  /\ FlagSet => ata_irq
  /\ FlagCleared => (HolderClears \/ ata_err_check)
\* C12 as stated: the flag is set only by ata_irq and is cleared only by the
\* waiter that holds the guard or by ata_err_check.
C12_FlagPathsStated == [][FlagPathsStated]_vars
FlagPaths ==
  /\ FlagSet => HolderArms
  /\ FlagCleared => (HolderClears \/ ata_irq \/ ata_err_check)
\* C12: the flag is set only by the waiter that holds the guard, on entering
\* ata_wait_ready, and is cleared only by that waiter on leaving it, by ata_irq
\* or by ata_err_check; no other step sets or clears it.
C12_FlagPaths == [][FlagPaths]_vars
\* the holder of the guard has armed the flag while another context is kept out
\* at the guard
C12_Witness ==
  \E c \in Ctx, o \in Ctx :
    /\ c # o
    /\ pc[c] = "wait_test" /\ dev.spinlock = c /\ dev.wait_irq = 1
    /\ pc[o] = "rd_lock"

\* the first accesses of log l are those of a reset at port: read, write with bit
\* 2 set, read, write with bit 2 clear
ResetAt(l, port) ==
  \A k \in 1 .. Min(Len(l), 4) :
    /\ l[k].port = port
    /\ l[k].op = (IF k % 2 = 1 THEN "in" ELSE "out")
    /\ (k = 2 => HasBit(l[k].val, 4))
    /\ (k = 4 => ~HasBit(l[k].val, 4))
\* C13: the reset that opens a type probe reads the port at the device's control
\* base + 0, writes it with bit 2 set, reads it again and writes it with bit 2
\* clear, and touches no other port.
C13_ResetPort ==
  \A c \in Ctx :
    (fr[c].op = "get_type" /\ fr[c].dev # NULL)
      => ResetAt(log[c], dev.ctrl + ATA_CTRL_DEVICE_CONTROL)

IsFlush(e) ==
  e.op = "out" /\ e.port = dev.bus + ATA_REG_COMMAND /\ e.val = ATA_CMD_CACHE_FLUSH
RECURSIVE Flushes(_)
Flushes(l) ==
  IF l = <<>> THEN 0 ELSE (IF IsFlush(Head(l)) THEN 1 ELSE 0) + Flushes(Tail(l))
\* C14: a call has issued the cache-flush command at most once; it has issued it
\* exactly when it is an ata_write that is about to release the guard or has
\* returned 0; the flush is then the last port access of the call, all n * 256
\* data words come before it and the guard is still held when it is issued.  A
\* call that returns -1 and an ata_read have issued none.
C14_FlushOnce ==
  \A c \in Ctx :
    /\ Flushes(log[c]) <= 1
    /\ Flushes(log[c]) = 1
         <=> /\ fr[c].op = "write"
             /\ pc[c] = "wr_exit" \/ (pc[c] = "ret" /\ fr[c].ret = 0)
    /\ Flushes(log[c]) = 1
         => /\ IsFlush(LastOf(log[c]))
            /\ DataWords(log[c]) = fr[c].sectors * WordsPerSector
    /\ pc[c] \in {"wr_flush", "wr_exit"} => dev.spinlock = c
\* a write of two sectors has returned 0: 512 words, then the one flush
C14_Witness ==
  \E c \in Ctx :
    /\ pc[c] = "ret" /\ fr[c].op = "write" /\ fr[c].ret = 0 /\ fr[c].sectors = 2
    /\ Flushes(log[c]) = 1 /\ DataWords(log[c]) = 512

SetupPcs == {"rd_lock", "wr_lock", "rd_setup", "wr_setup"}
\* the port and the value of the k-th setup write of a call with frame f
SetupPort(k) ==
  dev.bus + CASE k = 1 -> ATA_REG_DRIVE
              [] k = 2 -> ATA_REG_SECTOR_COUNT
              [] k = 3 -> ATA_REG_SECTOR_NUMBER
              [] k = 4 -> ATA_REG_CYLINDER_LOW
              [] k = 5 -> ATA_REG_CYLINDER_HIGH
              [] OTHER -> ATA_REG_COMMAND
SetupValueOk(f, k, v) ==
  CASE k = 1 -> (v \div 16) \in {14, 15} /\ v % 16 = (f.lba \div 2 ^ 24) % 16
    [] k = 2 -> v = f.sectors % 256
    [] k = 3 -> v = f.lba % 256
    [] k = 4 -> v = (f.lba \div 2 ^ 8) % 256
    [] k = 5 -> v = (f.lba \div 2 ^ 16) % 256
    [] OTHER -> v = (IF f.op = "read" THEN 32 ELSE 48)
\* the address the first five setup writes of log l carry
SetupLba(l) ==
  (l[1].val % 16) * 2 ^ 24 + l[5].val * 2 ^ 16 + l[4].val * 2 ^ 8 + l[3].val
\* C15: the first six port accesses of a read or write that passed validation
\* are the writes of drive/head (0xE0 or 0xF0 with lba bits 24..27), sector count,
\* sector number (lba bits 0..7), cylinder low (8..15), cylinder high (16..23)
\* and the command (0x20 read, 0x30 write), in this order; no wait and no data
\* transfer starts before the sixth; for lba < 2^28 the address fields give lba.
C15_SetupOrder ==
  \A c \in Ctx :
    (fr[c].op \in ReadWrite /\ ~BadArgs(fr[c])) =>
      /\ \A k \in 1 .. Min(Len(log[c]), 6) :
           /\ log[c][k].op = "out"
           /\ log[c][k].port = SetupPort(k)
           /\ SetupValueOk(fr[c], k, log[c][k].val)
      /\ Len(log[c]) < 6 => pc[c] \in SetupPcs
      /\ (Len(log[c]) >= 6 /\ fr[c].lba < 2 ^ 28) => SetupLba(log[c]) = fr[c].lba
\* a write at 0xABCDEF1 has finished its setup and has moved its sector
C15_Witness ==
  \E c \in Ctx :
    /\ pc[c] = "wr_flush" /\ fr[c].lba = 180150001 /\ fr[c].slave = 1
    /\ Len(log[c]) > 6
    /\ SetupLba(log[c]) = 180150001

\* the port accesses of ata_identify: those of the boot after the floating-bus test
IdentifyLog == SubSeq(log[0], 2, Len(log[0]))
IdentifyFails == ipc' = "done" /\ devices' = NULL /\ DataWords(log'[0]) = 0
\* the values the step has read from the cylinder registers
CylRead == SubSeq(log'[0], Len(log[0]) + 1, Len(log'[0]))
IdentifySteps ==
  /\ (ipc = "id_status" /\ ipc' # ipc)
       => IF status = 0 THEN IdentifyFails ELSE ipc' = "id_busy"
  /\ (ipc = "id_busy" /\ ipc' # ipc)
       => (~HasBit(status, ATA_STATUS_BSY) /\ ipc' = "id_cyl")
  /\ (ipc = "id_cyl" /\ ipc' # ipc)
       => IF Len(CylRead) = 2 /\ CylRead[1].val = 0 /\ CylRead[2].val = 0
          THEN ipc' = "id_poll" ELSE IdentifyFails
  /\ (ipc = "id_poll" /\ ipc' # ipc)
       => IF HasBit(status, ATA_STATUS_ERR) THEN IdentifyFails
          ELSE HasBit(status, ATA_STATUS_DRQ) /\ ipc' = "id_data"
  /\ (ipc = "id_data" /\ ipc' # ipc)
       => (ipc' = "done" /\ devices' = idev /\ idev # NULL)
\* the port accesses of an identify that succeeded: the six writes, the status
\* read, the busy poll, the two cylinder reads, the status poll, 256 data words
IdentifyShape(l) ==
  /\ Len(l) = 12
  /\ \A k \in 1 .. 6 : l[k].op = "out"
  /\ l[6].port = dev.bus + ATA_REG_COMMAND /\ l[6].val = ATA_CMD_IDENTIFY
  /\ l[7].op = "in" /\ l[7].port = dev.bus + ATA_REG_STATUS
  /\ l[8].op = "poll" /\ l[8].port = dev.bus + ATA_REG_STATUS
  /\ l[9].op = "in" /\ l[9].port = dev.bus + ATA_REG_CYLINDER_LOW /\ l[9].val = 0
  /\ l[10].op = "in" /\ l[10].port = dev.bus + ATA_REG_CYLINDER_HIGH /\ l[10].val = 0
  /\ l[11].op = "poll" /\ l[11].port = dev.bus + ATA_REG_STATUS
  /\ l[12].op = "inw" /\ l[12].port = dev.bus + ATA_REG_DATA
  /\ l[12].n = WordsPerSector
IdentifyResult ==
  ipc = "done" =>
    IF devices # NULL
    THEN IdentifyShape(IdentifyLog) /\ DataWords(log[0]) = WordsPerSector
    ELSE DataWords(log[0]) = 0
\* C16: ata_identify goes on after its first status read only if the status was
\* not zero, leaves the busy loop only on a status without the busy flag, goes on
\* after the cylinder reads only if both read zero, and reads data only after a
\* polled status with data-request and without the error flag; a success has read
\* exactly 256 data words after these steps in this order; every failure (status
\* zero, a cylinder register not zero, error flag) has read no data word.
C16_Identify == [][IdentifySteps]_vars /\ []IdentifyResult
\* an identify has succeeded and the device is registered
C16_Witness ==
  /\ ipc = "done" /\ devices # NULL
  /\ DataWords(log[0]) = 256
  /\ Len(IdentifyLog) = 12

\* c is inside ata_wait_ready, past the statement that sets the flag
ArmedPcs == {"wait_test", "wait_yield", "wait_done"}
\* C17: the flag is 1 only while a context that holds the guard is inside
\* ata_wait_ready of a read or a write; when the guard is free the flag is 0; at
\* most one context is inside ata_wait_ready.
C17_ArmedUnderGuard ==
  /\ dev.wait_irq # 0
       => \E c \in Ctx :
            dev.spinlock = c /\ pc[c] \in ArmedPcs /\ fr[c].op \in ReadWrite
  /\ dev.spinlock = 0 => dev.wait_irq = 0
  /\ Cardinality({c \in Ctx : pc[c] \in WaitPcs}) <= 1
\* the holder of the guard is armed and has yielded while another context is in
\* the middle of a type probe
C17_Witness ==
  \E c \in Ctx, o \in Ctx :
    /\ pc[c] = "wait_yield" /\ dev.spinlock = c /\ dev.wait_irq = 1
    /\ pc[o] = "gt_wait"

\* C18: a read or write that returned 0 has moved as many sectors of 256 words as
\* the value it wrote to the sector-count register commands (0 commands 256).
C18_SectorsCommanded ==
  \A c \in Ctx :
    (pc[c] = "ret" /\ fr[c].op \in ReadWrite /\ fr[c].ret = 0)
      => DataWords(log[c]) = SectorsCommanded(log[c][2].val) * WordsPerSector

\* every write of the drive/head register in log l has bit 4 set exactly when
\* the slave flag is not zero
SlaveBit(l, slave) ==
  \A k \in 1 .. Len(l) :
    (l[k].op = "out" /\ l[k].port = dev.bus + ATA_REG_DRIVE)
      => (HasBit(l[k].val, 16) <=> slave # 0)
\* C19: the value identify (for the master, at boot), the type probe, read and
\* write put into the drive/head register has bit 4 (0x10) set if and only if the
\* slave flag is not zero.
C19_SlaveBit ==
  /\ SlaveBit(log[0], 0)
  /\ \A c \in Ctx : SlaveBit(log[c], fr[c].slave)

\* c is in the loop of ata_wait_ready
InLoop(c) == pc[c] \in {"wait_test", "wait_yield"}
\* the status reports ready from some time on, or again and again the flag is
\* found cleared or c is out of the loop
WaitsEnd(c) ==
  \/ <>[]HasBit(status, ATA_STATUS_RDY)
  \/ []<>(~InLoop(c) \/ dev.wait_irq = 0)
Returned(c) == pc[c] = "ret" /\ dev.spinlock # c
\* C20: with the context rescheduled again and again, a read or write that holds
\* the guard returns with the guard free, provided the status comes to report
\* ready for good or the flag is cleared during each of its waits; an interrupt
\* that came before the flag was armed does not keep the call from returning.
C20_Returns ==
  \A c \in Ctx : WaitsEnd(c) => ((dev.spinlock = c) ~> Returned(c))
\* a write of two sectors has returned 0 after a wait that polled the status
C20_Witness ==
  \E c \in Ctx :
    /\ Returned(c) /\ fr[c].op = "write" /\ fr[c].ret = 0 /\ fr[c].sectors = 2
    /\ log[c][7].op = "poll"
    /\ dev.spinlock = 0
====
